---- MODULE Spec2Model ----
(***************************************************************************)
(* Model of src/bridge.ts: the bridge between a ProseMirror editor (a tree *)
(* document: one paragraph wrapping inline text) and the Micromerge CRDT   *)
(* (a flat list of characters with range marks).                           *)
(*                                                                         *)
(* The tree document is modelled as ProseMirror indexes it: a sequence of  *)
(* tokens (paragraph open, character, paragraph close); tree position p is *)
(* the gap after the p-th token.  The CRDT engine (micromerge.ts) and the  *)
(* ChangeQueue (changeQueue.ts) are not part of bridge.ts; they are        *)
(* modelled from the specification and marked so in MODEL_MAP.json.        *)
(***************************************************************************)
EXTENDS Integers, Sequences, FiniteSets, TLC

(* ------------------------------ bounds -------------------------------- *)

\* longest text (in characters) a tree document may hold
MaxLen == 2

\* most steps in one transaction
MaxSteps == 2

\* most Changes waiting in the queue buffer / batches in flight
MaxQueue == 2

Chars == {"a", "b"}

(* ------------------------------- marks -------------------------------- *)

\* schema.ts: the mark kinds, in declaration order
ALL_MARKS == <<"strong", "em", "comment", "link">>

isMarkType(name) == \E i \in 1..Len(ALL_MARKS) : ALL_MARKS[i] = name

\* Attribute values: "absent" (no such attribute), "num" (present, not a
\* string), "s1"/"s2" (two strings).
AttrVals == {"absent", "num", "s1", "s2"}

IsString(v) == v \in {"s1", "s2"}

NoAttrs == [id |-> "absent", url |-> "absent"]

Mark(type, attrs) == [type |-> type, attrs |-> attrs]

\* Marks whose instances coexist on one character (the schema's excludes: "")
MultiValued == {"comment"}

\* Mark.addToSet: a mark of a single-valued kind replaces the one of its kind
AddToSet(ms, m) ==
    IF m.type \in MultiValued
    THEN ms \cup {m}
    ELSE {x \in ms : x.type # m.type} \cup {m}

\* Mark.removeFromSet: removes the mark equal in kind and attributes
RemoveFromSet(ms, m) == ms \ {m}

(* --------------------------- tree document ---------------------------- *)

OpenTok == [t |-> "open", ch |-> "", marks |-> {}]

CloseTok == [t |-> "close", ch |-> "", marks |-> {}]

CharTok(c, ms) == [t |-> "char", ch |-> c, marks |-> ms]

\* schema.text(s): a text node without marks, as tokens
TextToks(s) == [i \in 1..Len(s) |-> CharTok(s[i], {})]

\* doc(paragraph(text))
PlainDoc(s) == <<OpenTok>> \o TextToks(s) \o <<CloseTok>>

RECURSIVE ToksText(_)
\* the characters of a token sequence, block boundaries contributing nothing
ToksText(toks) ==
    IF toks = <<>> THEN <<>>
    ELSE IF Head(toks).t = "char"
         THEN <<Head(toks).ch>> \o ToksText(Tail(toks))
         ELSE ToksText(Tail(toks))

\* Fragment.textBetween(from, to) without a block separator
textBetween(content, from, to) == ToksText(SubSeq(content, from + 1, to))

\* doc.content.size
ContentSize(d) == Len(d)

NumBlocks(d) == Cardinality({i \in 1..Len(d) : d[i].t = "open"})

\* A document is a non-empty run of paragraphs: open, characters, close.
WellFormed(d) ==
    /\ Len(d) >= 2
    /\ d[1].t = "open"
    /\ d[Len(d)].t = "close"
    /\ \A i \in 1..(Len(d) - 1) :
          /\ d[i].t = "open" => d[i + 1].t # "open"
          /\ d[i].t = "close" => d[i + 1].t = "open"
          /\ d[i].t = "char" => d[i + 1].t # "open"

\* A position inside a paragraph (depth 1): where inline content may go.
InlinePos(d, p) == p >= 1 /\ p < Len(d) /\ d[p].t # "close"

(* ------------------------------ slices -------------------------------- *)

Slice(content, openStart, openEnd) ==
    [content |-> content, openStart |-> openStart, openEnd |-> openEnd]

\* Slice.empty
SliceEmpty == Slice(<<>>, 0, 0)

\* new Slice(Fragment.from(schema.text(s)), 0, 0); the empty text is Slice.empty
TextSlice(s) == Slice(TextToks(s), 0, 0)

\* The slice of a paragraph split (Enter: splitBlock): two paragraph shells,
\* open on both sides.
SplitSlice == Slice(<<OpenTok, CloseTok, OpenTok, CloseTok>>, 1, 1)

\* A pasted slice "x</p><p>y": block structure with text on both sides.
PasteSlice(x, y) ==
    Slice(<<OpenTok, CharTok(x, {}), CloseTok, OpenTok, CharTok(y, {}), CloseTok>>, 1, 1)

\* slice.size
SliceSize(s) == Len(s.content) - s.openStart - s.openEnd

\* the tokens a slice puts into the document
SliceToks(s) == SubSeq(s.content, s.openStart + 1, Len(s.content) - s.openEnd)

IsFlatText(s) == \A i \in 1..Len(s.content) : s.content[i].t = "char"

(* ------------------- ProseMirror transform steps ---------------------- *)

NoMark == Mark("none", NoAttrs)

ReplaceStep(from, to, slice) ==
    [kind |-> "replace", from |-> from, to |-> to, slice |-> slice, mark |-> NoMark]

AddMarkStep(from, to, mark) ==
    [kind |-> "addMark", from |-> from, to |-> to, slice |-> SliceEmpty, mark |-> mark]

RemoveMarkStep(from, to, mark) ==
    [kind |-> "removeMark", from |-> from, to |-> to, slice |-> SliceEmpty, mark |-> mark]

\* a step of any other class (ReplaceAroundStep): applyTransaction has no
\* branch for it
OtherStep == [kind |-> "other", from |-> 0, to |-> 0, slice |-> SliceEmpty, mark |-> NoMark]

\* nesting depth of a tree position: 1 inside a paragraph, 0 between blocks
DepthAt(d, p) == IF p >= 1 /\ p < Len(d) /\ d[p].t # "close" THEN 1 ELSE 0

\* flat text put between blocks is wrapped in a paragraph
FitWrap(mid, df, dt, flat) ==
    IF df = 0 /\ dt = 0 /\ mid # <<>> /\ flat
    THEN <<OpenTok>> \o mid \o <<CloseTok>>
    ELSE mid

\* a range that leaves a paragraph half open is closed
FitClose(mid, df, dt) ==
    IF df = 1 /\ dt = 0 THEN mid \o <<CloseTok>>
    ELSE IF df = 0 /\ dt = 1 THEN mid \o <<OpenTok>>
    ELSE mid

\* a document left without any block gets an empty paragraph
FitFill(mid, whole) == IF whole /\ mid = <<>> THEN <<OpenTok, CloseTok>> ELSE mid

\* The tokens that replace [from, to): the slice's tokens, fitted to the place
\* as Transform.replace fits them.
FitToks(d, from, to, slice) ==
    FitFill(FitClose(FitWrap(SliceToks(slice), DepthAt(d, from), DepthAt(d, to),
                             IsFlatText(slice)),
                     DepthAt(d, from), DepthAt(d, to)),
            from = 0 /\ to = Len(d))

\* the document with [from, to) replaced by the slice
ReplaceRange(d, from, to, slice) ==
    SubSeq(d, 1, from) \o FitToks(d, from, to, slice) \o SubSeq(d, to + 1, Len(d))

\* AddMarkStep.apply: every character in [from, to) gets the mark
AddMarkRange(d, from, to, m) ==
    [i \in 1..Len(d) |->
        IF d[i].t = "char" /\ i >= from + 1 /\ i <= to
        THEN CharTok(d[i].ch, AddToSet(d[i].marks, m))
        ELSE d[i]]

\* RemoveMarkStep.apply: every character in [from, to) loses the mark
RemoveMarkRange(d, from, to, m) ==
    [i \in 1..Len(d) |->
        IF d[i].t = "char" /\ i >= from + 1 /\ i <= to
        THEN CharTok(d[i].ch, RemoveFromSet(d[i].marks, m))
        ELSE d[i]]

\* Step.apply(doc)
StepApply(d, step) ==
    CASE step.kind = "replace" -> ReplaceRange(d, step.from, step.to, step.slice)
      [] step.kind = "addMark" -> AddMarkRange(d, step.from, step.to, step.mark)
      [] step.kind = "removeMark" -> RemoveMarkRange(d, step.from, step.to, step.mark)
      [] OTHER -> d

(* --------------------------- transactions ----------------------------- *)

\* state.tr: a transaction over the document, with no step yet.  err is set
\* once a call on the transaction has thrown.
NewTr(d) == [doc |-> d, steps |-> <<>>, err |-> FALSE]

\* tr.step(step)
TrStep(tr, step) ==
    [doc |-> StepApply(tr.doc, step), steps |-> Append(tr.steps, step), err |-> tr.err]

\* transaction.replace(from, to, slice): no step for an empty replacement of
\* an empty range; a RangeError for a position outside the document.
TrReplace(tr, from, to, slice) ==
    IF tr.err THEN tr
    ELSE IF from = to /\ SliceSize(slice) = 0 THEN tr
    ELSE IF from < 0 \/ to < from \/ to > ContentSize(tr.doc)
         THEN [tr EXCEPT !.err = TRUE]
         ELSE TrStep(tr, ReplaceStep(from, to, slice))

\* transaction.addMark(from, to, mark): positions are clipped to the content
TrAddMark(tr, from, to, m) ==
    IF tr.err THEN tr
    ELSE IF \E i \in 1..Len(tr.doc) :
              tr.doc[i].t = "char" /\ i >= from + 1 /\ i <= to
         THEN TrStep(tr, AddMarkStep(from, to, m))
         ELSE tr

\* transaction.removeMark(from, to, mark)
TrRemoveMark(tr, from, to, m) ==
    IF tr.err THEN tr
    ELSE IF \E i \in 1..Len(tr.doc) :
              tr.doc[i].t = "char" /\ i >= from + 1 /\ i <= to /\ m \in tr.doc[i].marks
         THEN TrStep(tr, RemoveMarkStep(from, to, m))
         ELSE tr

(* ---------------------- operations and patches ------------------------ *)

\* Micromerge.contentKey: the reserved key of the root content list
contentKey == "text"

InsertOp(index, values) ==
    [action |-> "insert", path |-> <<contentKey>>, key |-> "", index |-> index,
     count |-> 0, values |-> values, start |-> 0, end |-> 0,
     markType |-> "", attrs |-> NoAttrs]

DeleteOp(index, count) ==
    [action |-> "delete", path |-> <<contentKey>>, key |-> "", index |-> index,
     count |-> count, values |-> <<>>, start |-> 0, end |-> 0,
     markType |-> "", attrs |-> NoAttrs]

\* action is "addMark" or "removeMark"
MarkOp(action, start, end, markType, attrs) ==
    [action |-> action, path |-> <<contentKey>>, key |-> "", index |-> 0,
     count |-> 0, values |-> <<>>, start |-> start, end |-> end,
     markType |-> markType, attrs |-> attrs]

MakeListOp(path, key) ==
    [action |-> "makeList", path |-> path, key |-> key, index |-> 0,
     count |-> 0, values |-> <<>>, start |-> 0, end |-> 0,
     markType |-> "", attrs |-> NoAttrs]

(* ------------------- applyTransaction (local edits) ------------------- *)

contentPosFromProsemirrorPos(position) == position - 1

\* a mark range's end, taken as if the engine's end were exclusive too
MarkEnd_Exclusive(to) == contentPosFromProsemirrorPos(to)

\* the end of a mark range: the index of its last character
MarkEnd(to) == contentPosFromProsemirrorPos(to - 1)

\* insertedContent.split("")
SplitChars(text) == text

\* the operations of a ReplaceStep; step.slice is always set
ReplaceStepOps(step) ==
    LET insertedContent ==
            textBetween(step.slice.content, 0, Len(step.slice.content))
        del == IF step.from # step.to
               THEN <<DeleteOp(contentPosFromProsemirrorPos(step.from),
                               step.to - step.from)>>
               ELSE <<>>
    IN  [err |-> "ok",
         ops |-> del \o <<InsertOp(contentPosFromProsemirrorPos(step.from),
                                   SplitChars(insertedContent))>>]

\* the operations of an AddMarkStep
AddMarkStepOps(step) ==
    LET name == step.mark.type
        start == contentPosFromProsemirrorPos(step.from)
        end == MarkEnd(step.to)
    IN  IF ~isMarkType(name) THEN [err |-> "invalidMarkType", ops |-> <<>>]
        ELSE IF name = "comment"
        THEN IF ~IsString(step.mark.attrs.id)
             THEN [err |-> "missingAttr", ops |-> <<>>]
             ELSE [err |-> "ok",
                   ops |-> <<MarkOp("addMark", start, end, name, step.mark.attrs)>>]
        ELSE IF name = "link"
        THEN IF ~IsString(step.mark.attrs.url)
             THEN [err |-> "missingAttr", ops |-> <<>>]
             ELSE [err |-> "ok",
                   ops |-> <<MarkOp("addMark", start, end, name, step.mark.attrs)>>]
        ELSE [err |-> "ok", ops |-> <<MarkOp("addMark", start, end, name, NoAttrs)>>]

\* the operations of a RemoveMarkStep: only the comment branch reads attrs
RemoveMarkStepOps(step) ==
    LET name == step.mark.type
        start == contentPosFromProsemirrorPos(step.from)
        end == MarkEnd(step.to)
    IN  IF ~isMarkType(name) THEN [err |-> "invalidMarkType", ops |-> <<>>]
        ELSE IF name = "comment"
        THEN IF ~IsString(step.mark.attrs.id)
             THEN [err |-> "missingAttr", ops |-> <<>>]
             ELSE [err |-> "ok",
                   ops |-> <<MarkOp("removeMark", start, end, name, step.mark.attrs)>>]
        ELSE [err |-> "ok", ops |-> <<MarkOp("removeMark", start, end, name, NoAttrs)>>]

\* one iteration of the loop over txn.steps
StepOps(step) ==
    CASE step.kind = "replace" -> ReplaceStepOps(step)
      [] step.kind = "addMark" -> AddMarkStepOps(step)
      [] step.kind = "removeMark" -> RemoveMarkStepOps(step)
      [] OTHER -> [err |-> "ok", ops |-> <<>>]

\* operations.push(...): where a step's operations go in the list
PushOps(operations, ops) == operations \o ops

RECURSIVE CompileFrom(_, _)
\* one turn of the loop: r is what the step compiled to
CompileTurn(operations, r, rest) ==
    IF r.err # "ok" THEN [err |-> r.err, ops |-> operations]
    ELSE CompileFrom(PushOps(operations, r.ops), rest)

\* the loop over txn.steps, from the operations gathered so far; a throw
\* leaves the loop with the error
CompileFrom(operations, steps) ==
    IF steps = <<>> THEN [err |-> "ok", ops |-> operations]
    ELSE CompileTurn(operations, StepOps(Head(steps)), Tail(steps))

\* the operations list applyTransaction builds for a transaction's steps
Compile(steps) == CompileFrom(<<>>, steps)

(* ------------------------- the CRDT engine ---------------------------- *)
(* Micromerge is consumed through change / applyChange only.  Its content  *)
(* list is modelled as the text itself; marks change no text.  A Change    *)
(* is atomic: an operation outside the content makes the call throw and    *)
(* leaves the engine as it was.                                            *)

EngineOpOk(text, op) ==
    CASE op.action = "insert" -> op.index >= 0 /\ op.index <= Len(text)
      [] op.action = "delete" ->
            op.index >= 0 /\ op.count >= 0 /\ op.index + op.count <= Len(text)
      [] op.action \in {"addMark", "removeMark"} ->
            op.start >= 0 /\ op.start <= op.end /\ op.end < Len(text)
      [] OTHER -> TRUE

EngineOp(text, op) ==
    CASE op.action = "insert" ->
            SubSeq(text, 1, op.index) \o op.values \o SubSeq(text, op.index + 1, Len(text))
      [] op.action = "delete" ->
            SubSeq(text, 1, op.index) \o SubSeq(text, op.index + op.count + 1, Len(text))
      [] op.action = "makeList" ->
            IF op.path = <<>> /\ op.key = contentKey THEN <<>> ELSE text
      [] OTHER -> text

RECURSIVE EngineRun(_, _)
EngineRun(text, ops) ==
    IF ops = <<>> THEN [ok |-> TRUE, text |-> text]
    ELSE IF ~EngineOpOk(text, Head(ops)) THEN [ok |-> FALSE, text |-> text]
    ELSE EngineRun(EngineOp(text, Head(ops)), Tail(ops))

\* a Change is atomic: one that throws leaves the text as it was
EngineAtomic(text, r) == IF r.ok THEN r ELSE [ok |-> FALSE, text |-> text]

\* doc.change(operations) and doc.applyChange(change): the engine's text after
EngineChange(text, ops) == EngineAtomic(text, EngineRun(text, ops))

\* a Change: the actor-tagged, ordered bundle doc.change returns
Change(actor, ops) == [actor |-> actor, ops |-> ops]

\* How the engine reports one operation as patches is its own choice: one
\* patch mirroring the operation ("op"), or one patch per character ("char").
Granularities == {"op", "char"}

OpPatches(op, g) ==
    IF g = "op" THEN <<op>>
    ELSE CASE op.action = "insert" ->
                [i \in 1..Len(op.values) |-> InsertOp(op.index + i - 1, <<op.values[i]>>)]
           [] op.action = "delete" ->
                [i \in 1..op.count |-> DeleteOp(op.index, 1)]
           [] OTHER -> <<op>>

RECURSIVE PatchesOf(_, _)
\* the patches applyChange returns, in the order of the operations
PatchesOf(ops, g) ==
    IF ops = <<>> THEN <<>>
    ELSE OpPatches(Head(ops), g) \o PatchesOf(Tail(ops), g)

(* ------------------ applyPatchToTransaction (remote) ------------------ *)

\* schema.mark(markType, attrs)
SchemaMark(markType, attrs) == Mark(markType, attrs)

\* schema.text(patch.values[0]): the first value only; no value, no text node
PatchText(values) == IF values = <<>> THEN <<>> ELSE <<values[1]>>

\* patch.index + 1, patch.start + 1: the paragraph's opening token
PatchPos(index) == index + 1

\* a mark patch's end moved by the paragraph offset only
PatchEnd_Exclusive(end) == end + 1

\* patch.end + 1 + 1: the paragraph offset, and the engine's end is inclusive
PatchEnd(end) == end + 1 + 1

\* unreachable(patch): the call does not return
unreachable(tr) == [tr EXCEPT !.err = TRUE]

applyPatchToTransaction(tr, patch) ==
    IF tr.err THEN tr
    ELSE CASE patch.action = "insert" ->
                IF PatchText(patch.values) = <<>>
                THEN [tr EXCEPT !.err = TRUE]
                ELSE TrReplace(tr, PatchPos(patch.index), PatchPos(patch.index),
                               TextSlice(PatchText(patch.values)))
           [] patch.action = "delete" ->
                TrReplace(tr, PatchPos(patch.index), PatchPos(patch.index) + patch.count,
                          SliceEmpty)
           [] patch.action = "makeList" ->
                IF Len(patch.path) = 0 /\ patch.key = contentKey
                THEN TrReplace(tr, 0, ContentSize(tr.doc), SliceEmpty)
                ELSE tr
           [] patch.action = "addMark" ->
                TrAddMark(tr, PatchPos(patch.start), PatchEnd(patch.end),
                          SchemaMark(patch.markType, patch.attrs))
           [] patch.action = "removeMark" ->
                TrRemoveMark(tr, PatchPos(patch.start), PatchEnd(patch.end),
                             SchemaMark(patch.markType, patch.attrs))
           [] OTHER -> unreachable(tr)

RECURSIVE ApplyPatches(_, _)
\* for (const patch of patches) transaction = applyPatchToTransaction(...)
ApplyPatches(tr, patches) ==
    IF patches = <<>> THEN tr
    ELSE ApplyPatches(applyPatchToTransaction(tr, Head(patches)), Tail(patches))

(* ------------------------------ state --------------------------------- *)

VARIABLES
    doc,        \* view.state.doc of the local editor
    crdt,       \* the text held by the local editor's engine
    buffer,     \* the Changes waiting in the local ChangeQueue
    tr,         \* the transaction a local command is building
    last,       \* the latest handler run on the local editor: what it was given and did
    subscribed, \* whether a peer editor is subscribed to the publisher
    net,        \* the published batches not yet handled by the peer
    peerDoc,    \* view.state.doc of the peer editor
    peerCrdt,   \* the text held by the peer's engine
    peerLast,   \* the latest handler run on the peer editor
    spans       \* the FormatSpans the engine handed createEditor

vars == <<doc, crdt, buffer, tr, last, subscribed, net, peerDoc, peerCrdt, peerLast,
         spans>>

actorId == "alice"

\* The record of one handler run: kind is "dispatch" (dispatchTransaction),
\* "tick" (the flush timer) or "incoming" (the subscribe handler); steps the
\* transaction's steps; outcome and err how it ended; calls the doc.change
\* calls it made; published the publisher.publish calls it made; batch the
\* incoming changes and trs the transaction built for each of them.
Run(kind, steps, outcome, err, calls, published, batch, trs) ==
    [kind |-> kind, steps |-> steps, outcome |-> outcome, err |-> err,
     calls |-> calls, published |-> published, batch |-> batch, trs |-> trs]

NoRun == Run("none", <<>>, "none", "ok", <<>>, <<>>, <<>>, <<>>)

(* ----------------------- dispatchTransaction -------------------------- *)

\* one doc.change call per operation
SubmitOps_PerOperation(operations) ==
    [i \in 1..Len(operations) |-> <<operations[i]>>]

\* the doc.change calls applyTransaction makes for the operations it built:
\* one call with all of them, or none when there is none
SubmitOps(operations) ==
    IF Len(operations) > 0 THEN <<operations>> ELSE <<>>

RECURSIVE RunCalls(_, _)
RunNext(r, rest) == IF ~r.ok THEN r ELSE RunCalls(r.text, rest)

\* the engine after the given doc.change calls, stopping at one that throws
RunCalls(text, calls) ==
    IF calls = <<>> THEN [ok |-> TRUE, text |-> text]
    ELSE RunNext(EngineChange(text, Head(calls)), Tail(calls))

\* what applyTransaction leaves: c the compiled list, calls the doc.change
\* calls made, r the engine after them
TransactionResult(c, calls, r) ==
    [err |-> IF c.err # "ok" THEN c.err ELSE IF ~r.ok THEN "engine" ELSE "ok",
     calls |-> calls,
     text |-> r.text,
     change |-> IF c.err = "ok" /\ r.ok /\ calls # <<>>
                THEN <<Change(actorId, calls[Len(calls)])>>
                ELSE <<>>]

TransactionCalls(text, c, calls) == TransactionResult(c, calls, RunCalls(text, calls))

\* the operations gathered before a throw are submitted all the same
TransactionOps_Partial(text, c) == TransactionCalls(text, c, SubmitOps(c.ops))

\* a throw inside the loop leaves applyTransaction before doc.change
TransactionOps(text, c) ==
    TransactionCalls(text, c, IF c.err = "ok" THEN SubmitOps(c.ops) ELSE <<>>)

\* applyTransaction({doc, txn}) with the engine holding text: the error thrown
\* ("ok" for none), the doc.change calls made, the engine's text afterwards
\* and the Change returned (<<>> for null, else <<change>>)
applyTransaction(text, steps) == TransactionOps(text, Compile(steps))

\* the change takes the place of what waits in the buffer
Enqueue_Replace(buf, change) == <<change>>

\* queue.enqueue(change)
Enqueue(buf, change) == Append(buf, change)

\* dispatchTransaction after applyTransaction has left a
DispatchAfter(d, buf, txn, a) ==
    IF a.err # "ok"
    THEN [doc |-> d, crdt |-> a.text, buffer |-> buf,
          last |-> Run("dispatch", txn.steps, "threw", a.err, a.calls, <<>>, <<>>, <<>>)]
    ELSE [doc |-> txn.doc, crdt |-> a.text,
          buffer |-> IF a.change # <<>> THEN Enqueue(buf, a.change[1]) ELSE buf,
          last |-> Run("dispatch", txn.steps,
                       IF a.change # <<>> THEN "change" ELSE "null",
                       "ok", a.calls, <<>>, <<>>, <<>>)]

\* dispatchTransaction(txn) on the editor (d, e, buf): the state it leaves.
\* state.apply(txn) is held in a local; a throw out of applyTransaction leaves
\* before queue.enqueue and before view.updateState.
DispatchResult(d, e, buf, txn) ==
    DispatchAfter(d, buf, txn, applyTransaction(e, txn.steps))

(* ----------------------- the subscribe handler ------------------------ *)

RECURSIVE HandleChanges(_, _, _, _, _)
\* one change's record: the state before, the patches, the transaction built
ChangeRecord(s, patches, t) ==
    [before |-> s, patches |-> patches, steps |-> t.steps, after |-> t.doc,
     err |-> t.err]

\* a transaction that could not be built whole is applied all the same
HandleTurn_Ignore(s, e, rest, g, trs, a, t, rec) ==
    IF ~a.ok
    THEN [threw |-> TRUE, doc |-> s, text |-> e, trs |-> trs]
    ELSE HandleChanges(t.doc, a.text, rest, g, Append(trs, rec))

\* one turn of the loop: a is the engine after applyChange, t the transaction
\* folded from the patches.  A throw (doc.applyChange, or a patch that cannot
\* be applied) ends the run.
HandleTurn(s, e, rest, g, trs, a, t, rec) ==
    IF ~a.ok
    THEN [threw |-> TRUE, doc |-> s, text |-> e, trs |-> trs]
    ELSE IF t.err
    THEN [threw |-> TRUE, doc |-> s, text |-> a.text, trs |-> Append(trs, rec)]
    ELSE HandleChanges(t.doc, a.text, rest, g, Append(trs, rec))

HandlePatches(s, e, rest, g, trs, a, patches, t) ==
    HandleTurn(s, e, rest, g, trs, a, t, ChangeRecord(s, patches, t))

HandleChange(s, e, rest, g, trs, a, patches) ==
    HandlePatches(s, e, rest, g, trs, a, patches, ApplyPatches(NewTr(s), patches))

\* the loop over incomingChanges, from the local state s, the engine text e
\* and the per-change records so far; g is the engine's patch granularity
HandleChanges(s, e, changes, g, trs) ==
    IF changes = <<>> THEN [threw |-> FALSE, doc |-> s, text |-> e, trs |-> trs]
    ELSE HandleChange(s, e, Tail(changes), g, trs,
                      EngineChange(e, Head(changes).ops),
                      PatchesOf(Head(changes).ops, g))

\* the view is given the document of the last transaction built, whole or not
HandleExit_Partial(d, incomingChanges, r) ==
    [doc |-> IF r.trs # <<>> THEN r.trs[Len(r.trs)].after ELSE r.doc,
     crdt |-> r.text,
     last |-> Run("incoming", <<>>, IF r.threw THEN "threw" ELSE "ok", "ok",
                  <<>>, <<>>, incomingChanges, r.trs)]

\* the handler's exit: view.updateState(state) is the last statement
HandleExit(d, incomingChanges, r) ==
    [doc |-> IF r.threw THEN d ELSE r.doc,
     crdt |-> r.text,
     last |-> Run("incoming", <<>>, IF r.threw THEN "threw" ELSE "ok", "ok",
                  <<>>, <<>>, incomingChanges, r.trs)]

\* the handler given to publisher.subscribe, run on the editor (d, e): the
\* state it leaves
HandleResult(d, e, incomingChanges, g) ==
    IF Len(incomingChanges) = 0
    THEN [doc |-> d, crdt |-> e,
          last |-> Run("incoming", <<>>, "empty", "ok", <<>>, <<>>, incomingChanges, <<>>)]
    ELSE HandleExit(d, incomingChanges, HandleChanges(d, e, incomingChanges, g, <<>>))

\* the handler enqueues what it was given
HandleQueue_Echo(buf, incomingChanges, r) ==
    [doc |-> r.doc, crdt |-> r.crdt, last |-> r.last, buffer |-> buf \o incomingChanges]

\* the handler makes no queue.enqueue call: the buffer is as it was
HandleQueue(buf, incomingChanges, r) ==
    [doc |-> r.doc, crdt |-> r.crdt, last |-> r.last, buffer |-> buf]

\* the handler run on the editor (d, e, buf): the state it leaves
IncomingResult(d, e, buf, incomingChanges, g) ==
    HandleQueue(buf, incomingChanges, HandleResult(d, e, incomingChanges, g))

(* --------------------------- the ChangeQueue -------------------------- *)

\* one publisher.publish call per Change
handleFlush_PerChange(changes) ==
    [i \in 1..Len(changes) |-> [actor |-> actorId, changes |-> <<changes[i]>>]]

\* handleFlush: the publisher.publish(actorId, changes) calls it makes
handleFlush(changes) == <<[actor |-> actorId, changes |-> changes]>>

\* one flush tick of a started queue: the publish calls made
FlushCalls(buf) == IF buf # <<>> THEN handleFlush(buf) ELSE <<>>

\* the batches in flight to the peer after the given publish calls
Deliver(n, calls, on) ==
    IF on THEN n \o [i \in 1..Len(calls) |-> calls[i].changes] ELSE n

(* ------------------------------ inputs -------------------------------- *)

\* the texts of at most n characters
Texts(n) == UNION {[1..k -> Chars] : k \in 0..n}

Attrs(id, url) == [id |-> id, url |-> url]

\* the marks a document may start with, per character
InitMarkSets ==
    {{}, {Mark("strong", NoAttrs)}, {Mark("link", Attrs("absent", "s1"))},
     {Mark("comment", Attrs("s1", "absent")), Mark("comment", Attrs("s2", "absent"))}}

\* single-paragraph documents of at most n characters
Docs(n) ==
    LET toks == {CharTok(c, ms) : c \in Chars, ms \in InitMarkSets}
    IN  {<<OpenTok>> \o body \o <<CloseTok>> : body \in UNION {[1..k -> toks] : k \in 0..n}}

\* the marks a local mark step may carry: well-formed ones, ones whose
\* required attribute is absent or not a string, and a kind outside ALL_MARKS
StepMarks ==
    {Mark("strong", NoAttrs),
     Mark("comment", Attrs("s1", "absent")), Mark("comment", Attrs("s2", "absent")),
     Mark("comment", NoAttrs), Mark("comment", Attrs("num", "absent")),
     Mark("link", Attrs("absent", "s1")), Mark("link", Attrs("absent", "s2")),
     Mark("link", NoAttrs), Mark("link", Attrs("absent", "num")),
     Mark("underline", NoAttrs)}

InlinePositions(d) == {p \in 1..Len(d) : InlinePos(d, p)}

\* the replace steps over one paragraph of d: any range, any plain text
TextSteps(d, texts) ==
    {ReplaceStep(f, t, TextSlice(x)) :
        f \in InlinePositions(d), t \in InlinePositions(d), x \in texts}

\* the replace steps whose slice carries block structure: Enter, and a paste
StructSteps(d) ==
    {ReplaceStep(p, p, sl) : p \in InlinePositions(d),
                             sl \in {SplitSlice, PasteSlice("a", "b")}}

MarkSteps(d, marks) ==
    {AddMarkStep(f, t, m) : f \in InlinePositions(d), t \in InlinePositions(d), m \in marks}
    \cup
    {RemoveMarkStep(f, t, m) : f \in InlinePositions(d), t \in InlinePositions(d), m \in marks}

\* a step a transaction over d may hold: ranges run forward inside one
\* paragraph, mark ranges are not empty
ValidStep(d, step) ==
    /\ step.kind # "other" => step.from <= step.to
    /\ step.kind # "other" =>
          \A p \in step.from..(step.to - 1) : InlinePos(d, p + 1) \/ p + 1 = step.to
    /\ step.kind \in {"addMark", "removeMark"} => step.from < step.to

\* every step of the single-step specification
RichSteps(d) ==
    {st \in TextSteps(d, Texts(MaxLen)) \cup StructSteps(d)
            \cup MarkSteps(d, StepMarks) \cup {OtherStep} : ValidStep(d, st)}

(* ------------------------------ actions ------------------------------- *)

\* a local command builds a one-step transaction and dispatches it
EditStep ==
    /\ last.kind # "dispatch"
    /\ buffer = <<>> /\ net = <<>> /\ peerLast.kind = "none"
    /\ \E step \in RichSteps(doc) :
       \E r \in {DispatchResult(doc, crdt, buffer, TrStep(NewTr(doc), step))} :
              /\ doc' = r.doc
              /\ crdt' = r.crdt
              /\ buffer' = r.buffer
              /\ last' = r.last
              /\ tr' = NewTr(r.doc)
    /\ UNCHANGED <<subscribed, net, peerDoc, peerCrdt, peerLast, spans>>

\* one tick of the flush timer
Tick ==
    /\ tr.steps = <<>>
    /\ Len(net) < MaxQueue
    /\ \E calls \in {FlushCalls(buffer)} :
          /\ last' = Run("tick", <<>>, "ok", "ok", <<>>, calls, <<>>, <<>>)
          /\ net' = Deliver(net, calls, subscribed)
    /\ buffer' = <<>>
    /\ UNCHANGED <<doc, crdt, tr, subscribed, peerDoc, peerCrdt, peerLast, spans>>

\* the peer's handler runs on the next published batch
Receive ==
    /\ net # <<>>
    /\ \E g \in Granularities :
       \E r \in {HandleResult(peerDoc, peerCrdt, Head(net), g)} :
              /\ peerDoc' = r.doc
              /\ peerCrdt' = r.crdt
              /\ peerLast' = r.last
    /\ net' = Tail(net)
    /\ UNCHANGED <<doc, crdt, buffer, tr, last, subscribed, spans>>

(* --------- specification of one single-step local transaction --------- *)

InitStep ==
    /\ doc \in Docs(MaxLen)
    /\ crdt = ToksText(doc)
    /\ buffer = <<>>
    /\ tr = NewTr(doc)
    /\ last = NoRun
    /\ subscribed = TRUE
    /\ net = <<>>
    /\ peerDoc = doc
    /\ peerCrdt = crdt
    /\ peerLast = NoRun
    /\ spans = <<>>

NextStep == EditStep \/ Tick \/ Receive

SpecStep == InitStep /\ [][NextStep]_vars

(* ---------- specification of one multi-step local transaction -------- *)

\* the text "abab..." of k characters
Pattern(k) == [i \in 1..k |-> IF i % 2 = 1 THEN "a" ELSE "b"]

TxnMarks ==
    {Mark("strong", NoAttrs), Mark("comment", NoAttrs), Mark("link", NoAttrs),
     Mark("underline", NoAttrs)}

\* the steps a command may add to the transaction it builds: replacements of
\* at most one character by at most one, Enter, marks over one character
TxnSteps(d) ==
    {st \in TextSteps(d, Texts(1)) \cup {ReplaceStep(q, q, SplitSlice) : q \in InlinePositions(d)}
            \cup MarkSteps(d, TxnMarks) \cup {OtherStep} :
        /\ ValidStep(d, st)
        /\ st.to - st.from <= 1
        /\ Len(ToksText(StepApply(d, st))) <= MaxLen
        /\ NumBlocks(StepApply(d, st)) <= 2}

\* tr.replace / tr.addMark / tr.removeMark / tr.step: the command adds a step
Build ==
    /\ last.kind = "none"
    /\ Len(tr.steps) < MaxSteps
    /\ \E step \in TxnSteps(tr.doc) : tr' = TrStep(tr, step)
    /\ UNCHANGED <<doc, crdt, buffer, last, subscribed, net, peerDoc, peerCrdt, peerLast, spans>>

\* the command dispatches the transaction it built
Dispatch ==
    /\ last.kind = "none"
    /\ \E r \in {DispatchResult(doc, crdt, buffer, tr)} :
          /\ doc' = r.doc
          /\ crdt' = r.crdt
          /\ buffer' = r.buffer
          /\ last' = r.last
          /\ tr' = NewTr(r.doc)
    /\ UNCHANGED <<subscribed, net, peerDoc, peerCrdt, peerLast, spans>>

\* A session in which the text Pattern(k) is in the document and either
\* everything has been flushed, or its last character was typed since the
\* last tick and its Change still waits in the buffer.
InitTxn ==
    /\ \E k \in 0..MaxLen :
          /\ doc = PlainDoc(Pattern(k))
          /\ crdt = Pattern(k)
          /\ buffer \in {<<>>} \cup
                {<<Change(actorId, <<InsertOp(k - 1, <<Pattern(k)[k]>>)>>)>> :
                    j \in 1..(IF k > 0 THEN 1 ELSE 0)}
    /\ tr = NewTr(doc)
    /\ last = NoRun
    /\ subscribed = FALSE
    /\ net = <<>>
    /\ peerDoc = doc
    /\ peerCrdt = crdt
    /\ peerLast = NoRun
    /\ spans = <<>>

NextTxn == Build \/ Dispatch

SpecTxn == InitTxn /\ [][NextTxn]_vars

(* ------------------ specification of an editing session --------------- *)

\* a comment mark made without its id: the step of a command that fails
SessionMarks == {Mark("comment", NoAttrs)}

\* the one-step transactions of a session: a typed character, the deletion
\* of one character, Enter, a comment put on a range
SessionSteps(d) ==
    {st \in TextSteps(d, Texts(1)) \cup {ReplaceStep(q, q, SplitSlice) : q \in InlinePositions(d)}
            \cup MarkSteps(d, SessionMarks) :
        /\ ValidStep(d, st)
        /\ st.kind # "removeMark"
        /\ st.kind = "replace" => st.to - st.from + Len(ToksText(st.slice.content)) = 1
                                  \/ st.slice = SplitSlice
        /\ Len(ToksText(StepApply(d, st))) <= MaxLen
        /\ NumBlocks(StepApply(d, st)) <= 2}

\* a local command builds a one-step transaction and dispatches it
Edit ==
    /\ Len(buffer) < MaxQueue
    /\ \E step \in SessionSteps(doc) :
       \E r \in {DispatchResult(doc, crdt, buffer, TrStep(NewTr(doc), step))} :
              /\ doc' = r.doc
              /\ crdt' = r.crdt
              /\ buffer' = r.buffer
              /\ last' = r.last
              /\ tr' = NewTr(r.doc)
    /\ UNCHANGED <<subscribed, net, peerDoc, peerCrdt, peerLast, spans>>

\* the state createEditor leaves on an empty content list, the queue started
Init ==
    /\ doc = PlainDoc(<<>>)
    /\ crdt = <<>>
    /\ buffer = <<>>
    /\ tr = NewTr(doc)
    /\ last = NoRun
    /\ subscribed = FALSE
    /\ net = <<>>
    /\ peerDoc = doc
    /\ peerCrdt = crdt
    /\ peerLast = NoRun
    /\ spans = <<>>

Next == Edit \/ Tick

Spec == Init /\ [][Next]_vars

(* =============================== claims ================================ *)

\* the per-change records of the peer's latest handler run
PeerRecs == {peerLast.trs[k] : k \in 1..Len(peerLast.trs)}

IsMarkPatch(p) == p.action \in {"addMark", "removeMark"}

\* text with values put in at index
InsertedAt(text, index, values) ==
    SubSeq(text, 1, index) \o values \o SubSeq(text, index + 1, Len(text))

(* ------------------------------- C1 ----------------------------------- *)
\* C1: whenever the peer has handled a batch whose first Change is what a
\* plain-text replace step over its prior document compiles to, the peer's
\* document equals the prior document with that step applied directly.
C1_ReplaceRoundTrip ==
    \A rec \in PeerRecs :
        \A st \in TextSteps(rec.before, Texts(MaxLen)) :
            (/\ ValidStep(rec.before, st)
             /\ rec = peerLast.trs[1]
             /\ Compile(<<st>>).ops = peerLast.batch[1].ops)
            => peerDoc = StepApply(rec.before, st)

(* ------------------------------- C5 ----------------------------------- *)
\* C5: a change whose only patch is insert(index, values), with one value or
\* more, leaves the tree document with all of values put in at tree position
\* index + 1: the text has grown by exactly Len(values) characters.
C5_InsertAllValues ==
    \A rec \in PeerRecs :
        (/\ Len(rec.patches) = 1
         /\ rec.patches[1].action = "insert"
         /\ Len(rec.patches[1].values) >= 1)
        => /\ ~rec.err
           /\ ToksText(rec.after) =
                InsertedAt(ToksText(rec.before), rec.patches[1].index, rec.patches[1].values)
           /\ Len(ToksText(rec.after)) =
                Len(ToksText(rec.before)) + Len(rec.patches[1].values)

(* ------------------------------- C3 ----------------------------------- *)
\* the step a mark patch stands for, over the tree range the applier gives it
PatchStep(p) ==
    IF p.action = "addMark"
    THEN AddMarkStep(PatchPos(p.start), PatchEnd(p.end), SchemaMark(p.markType, p.attrs))
    ELSE RemoveMarkStep(PatchPos(p.start), PatchEnd(p.end), SchemaMark(p.markType, p.attrs))

\* the peer handled one change whose only patch is a mark patch
MarkPatchRec(rec) == Len(rec.patches) = 1 /\ IsMarkPatch(rec.patches[1])

\* C3: the tree range the applier gives a mark patch (start, end) compiles
\* back to an operation with the same start and end; and every local mark
\* step over [from, to) whose compiled operation reached the peer is applied
\* there over exactly [from, to).
C3_MarkRangeRoundTrip ==
    \A rec \in PeerRecs :
        MarkPatchRec(rec) =>
            /\ rec.patches[1].start <= rec.patches[1].end
            /\ Compile(<<PatchStep(rec.patches[1])>>).err = "ok"
            /\ Len(Compile(<<PatchStep(rec.patches[1])>>).ops) = 1
            /\ Compile(<<PatchStep(rec.patches[1])>>).ops[1].start = rec.patches[1].start
            /\ Compile(<<PatchStep(rec.patches[1])>>).ops[1].end = rec.patches[1].end
            /\ \A k \in 1..Len(rec.steps) :
                  /\ rec.steps[k].from = PatchStep(rec.patches[1]).from
                  /\ rec.steps[k].to = PatchStep(rec.patches[1]).to
            /\ \A st \in MarkSteps(rec.before, StepMarks) :
                  (/\ ValidStep(rec.before, st)
                   /\ Compile(<<st>>).err = "ok"
                   /\ Compile(<<st>>).ops = <<rec.patches[1]>>)
                  => /\ PatchStep(rec.patches[1]).from = st.from
                     /\ PatchStep(rec.patches[1]).to = st.to
                     /\ rec.after = StepApply(rec.before,
                                        [st EXCEPT !.mark = PatchStep(rec.patches[1]).mark])

\* the peer applied an addMark patch over more than one character, and a
\* removeMark patch would do as well: here the marks of the range changed
C3_Witness ==
    /\ peerLast.kind = "incoming"
    /\ \E rec \in PeerRecs :
          /\ MarkPatchRec(rec)
          /\ rec.patches[1].action = "addMark"
          /\ rec.patches[1].start < rec.patches[1].end
          /\ ~rec.err
          /\ Len(rec.steps) = 1
          /\ rec.after # rec.before

(* ------------------------------- C4 ----------------------------------- *)
\* the tokens of d between tree positions from and to
TokensIn(d, from, to) == {i \in 1..Len(d) : i >= from + 1 /\ i <= to}

\* the marks of a character after the patch p has acted on it
PatchedMarks(ms, p) ==
    IF p.action = "addMark" THEN AddToSet(ms, Mark(p.markType, p.attrs))
    ELSE RemoveFromSet(ms, Mark(p.markType, p.attrs))

\* C4: a mark patch over flat [start, end] changes the marks of exactly the
\* end - start + 1 characters in tree range [start + 1, end + 2), by adding
\* or removing the mark of the patch's kind and attrs, leaves every other
\* token as it was, and changes no text.
C4_MarkPatchRange ==
    \A rec \in PeerRecs :
        MarkPatchRec(rec) =>
            /\ ~rec.err
            /\ Len(rec.after) = Len(rec.before)
            /\ ToksText(rec.after) = ToksText(rec.before)
            /\ Cardinality(TokensIn(rec.before, rec.patches[1].start + 1,
                                    rec.patches[1].end + 2))
                  = rec.patches[1].end - rec.patches[1].start + 1
            /\ \A i \in 1..Len(rec.before) :
                  IF i \in TokensIn(rec.before, rec.patches[1].start + 1,
                                    rec.patches[1].end + 2)
                  THEN /\ rec.before[i].t = "char"
                       /\ rec.after[i] =
                            CharTok(rec.before[i].ch,
                                    PatchedMarks(rec.before[i].marks, rec.patches[1]))
                  ELSE rec.after[i] = rec.before[i]

\* the peer applied addMark(0, 1, link, {url}) to a two-character paragraph
\* none of whose characters had the link
C4_Witness ==
    /\ peerLast.kind = "incoming"
    /\ \E rec \in PeerRecs :
          /\ MarkPatchRec(rec)
          /\ rec.patches[1].action = "addMark"
          /\ rec.patches[1].markType = "link"
          /\ rec.patches[1].start = 0
          /\ rec.patches[1].end = 1
          /\ Len(rec.before) = 4
          /\ \A i \in 2..3 : /\ rec.before[i].marks = {}
                             /\ rec.after[i].marks = {Mark("link", rec.patches[1].attrs)}

(* ------------------------------- C8 ----------------------------------- *)
\* the mark kind wants attribute data the mark does not carry as a string
LacksAttr(m) ==
    \/ m.type = "comment" /\ ~IsString(m.attrs.id)
    \/ m.type = "link" /\ ~IsString(m.attrs.url)

\* C8: a transaction whose only step adds or removes a comment mark without
\* a string id, or a link mark without a string url, fails with the
\* missing-attribute error and is not compiled.
C8_MissingAttrRejected ==
    (/\ last.kind = "dispatch"
     /\ Len(last.steps) = 1
     /\ last.steps[1].kind \in {"addMark", "removeMark"}
     /\ LacksAttr(last.steps[1].mark))
    => /\ last.outcome = "threw"
       /\ last.err = "missingAttr"
       /\ last.calls = <<>>

(* ------------------------------- C9 ----------------------------------- *)
\* C9: a transaction whose only step is a replace step with block structure
\* in its slice fails, and no insert operation made from that slice reaches
\* the engine.
C9_StructuralRejected ==
    (/\ last.kind = "dispatch"
     /\ Len(last.steps) = 1
     /\ last.steps[1].kind = "replace"
     /\ ~IsFlatText(last.steps[1].slice))
    => /\ last.outcome = "threw"
       /\ last.calls = <<>>

(* ------------------------------- C2 ----------------------------------- *)
\* ops is what one step hands the engine: for a replace step the
\* delete(from - 1, to - from) of a non-empty range, then the insert of the
\* inserted text at from - 1; for a mark step one mark operation over
\* [from - 1, to - 2]; nothing for any other step
StepSegment(step, ops) ==
    CASE step.kind = "replace" ->
            LET nd == IF step.from # step.to THEN 1 ELSE 0
                text == ToksText(step.slice.content)
            IN  /\ Len(ops) \in {nd, nd + 1}
                /\ nd = 1 => /\ ops[1].action = "delete"
                             /\ ops[1].index = step.from - 1
                             /\ ops[1].count = step.to - step.from
                /\ text # <<>> => Len(ops) = nd + 1
                /\ Len(ops) = nd + 1 => /\ ops[nd + 1].action = "insert"
                                        /\ ops[nd + 1].index = step.from - 1
                                        /\ ops[nd + 1].values = text
      [] step.kind \in {"addMark", "removeMark"} ->
            /\ Len(ops) = 1
            /\ ops[1].action = step.kind
            /\ ops[1].start = step.from - 1
            /\ ops[1].end = step.to - 2
            /\ ops[1].markType = step.mark.type
      [] OTHER -> ops = <<>>

RECURSIVE InStepOrder(_, _)
\* ops is the steps' segments, one after the other in the order of the steps
InStepOrder(steps, ops) ==
    IF steps = <<>> THEN ops = <<>>
    ELSE \E n \in 0..2 :
            /\ n <= Len(ops)
            /\ StepSegment(Head(steps), SubSeq(ops, 1, n))
            /\ InStepOrder(Tail(steps), SubSeq(ops, n + 1, Len(ops)))

\* C2: a dispatched transaction whose steps all compile makes at most one
\* doc.change call, and that call carries the operations of all the steps in
\* step order, a replace step's delete before its insert; no call is made
\* only when there is no operation at all.
C2_OneChangeInStepOrder ==
    (last.kind = "dispatch" /\ last.err \in {"ok", "engine"}) =>
        /\ Len(last.calls) <= 1
        /\ Len(last.calls) = 1 => /\ last.calls[1] # <<>>
                                  /\ InStepOrder(last.steps, last.calls[1])
        /\ Len(last.calls) = 0 => InStepOrder(last.steps, <<>>)

\* a transaction that replaces one character by another and then marks a
\* character reached the engine as one call of three operations
C2_Witness ==
    /\ last.kind = "dispatch"
    /\ Len(last.steps) = 2
    /\ last.steps[1].kind = "replace"
    /\ last.steps[1].from # last.steps[1].to
    /\ last.steps[1].slice.content # <<>>
    /\ last.steps[2].kind = "addMark"
    /\ Len(last.calls) = 1
    /\ Len(last.calls[1]) = 3
    /\ last.outcome = "change"

(* ------------------------------- C6 ----------------------------------- *)
\* no step of the transaction affects content: each is of another kind, or
\* a replace step of an empty range that inserts no text
NoContentSteps(steps) ==
    \A k \in 1..Len(steps) :
        \/ steps[k].kind = "other"
        \/ /\ steps[k].kind = "replace"
           /\ steps[k].from = steps[k].to
           /\ textBetween(steps[k].slice.content, 0, Len(steps[k].slice.content)) = <<>>

\* C6: dispatching a transaction none of whose steps affects content makes
\* no doc.change call, returns null and enqueues nothing.
C6_NoContentNoChange ==
    [][(last'.kind = "dispatch" /\ last.kind # "dispatch" /\ NoContentSteps(last'.steps))
       => /\ last'.outcome = "null"
          /\ last'.calls = <<>>
          /\ buffer' = buffer]_vars

(* ------------------------------- C7 ----------------------------------- *)
\* C7: when compiling a dispatched transaction fails on a step (a mark kind
\* outside ALL_MARKS, a comment without a string id, a link without a string
\* url), no doc.change call is made, the engine, the queue buffer and the
\* editor's document are as before, and the editor is ready for the next
\* transaction over the unchanged document.
C7_CompileErrorLocal ==
    [][(/\ last'.kind = "dispatch"
        /\ last.kind # "dispatch"
        /\ last'.err \in {"invalidMarkType", "missingAttr"})
       => /\ last'.outcome = "threw"
          /\ last'.calls = <<>>
          /\ doc' = doc
          /\ crdt' = crdt
          /\ buffer' = buffer
          /\ net' = net
          /\ tr' = NewTr(doc)]_vars

\* a transaction whose first step compiles and whose second does not was
\* dispatched while a Change was waiting in the buffer
C7_Witness ==
    /\ last.kind = "dispatch"
    /\ last.outcome = "threw"
    /\ last.err \in {"invalidMarkType", "missingAttr"}
    /\ Len(last.steps) = 2
    /\ last.steps[1].kind = "replace"
    /\ Compile(<<last.steps[1]>>).err = "ok"
    /\ Compile(<<last.steps[1]>>).ops # <<>>
    /\ buffer # <<>>

(* ------------------------------- C10 ---------------------------------- *)
\* C10: a flush tick with a non-empty buffer makes exactly one publish call,
\* with actorId and the whole buffer in enqueue order, and one with an empty
\* buffer makes none; the buffer is empty afterwards.  A dispatched
\* transaction that makes a Change puts it at the end of the buffer and
\* leaves the Changes before it in place.
C10_Batching ==
    [][/\ last'.kind = "tick" =>
            /\ buffer' = <<>>
            /\ last'.published =
                  IF buffer # <<>> THEN <<[actor |-> actorId, changes |-> buffer]>>
                  ELSE <<>>
       /\ last'.kind = "dispatch" =>
            /\ last'.outcome = "change" =>
                  /\ Len(last'.calls) = 1
                  /\ buffer' = buffer \o <<Change(actorId, last'.calls[1])>>
            /\ last'.outcome # "change" => buffer' = buffer]_vars

\* two transactions were dispatched between two ticks and the tick published
\* their two Changes as one batch
C10_Witness ==
    /\ last.kind = "tick"
    /\ Len(last.published) = 1
    /\ Len(last.published[1].changes) = 2
    /\ last.published[1].actor = actorId
    /\ buffer = <<>>

(* ---------------------- prosemirrorDocFromCRDT ------------------------ *)
(* A FormatSpan is [text, marks]; marks is the span's mark map, held as  *)
(* the list of its entries in key order.  An entry's value is a list of  *)
(* values (list = TRUE, one id per value) or one value with its active   *)
(* flag and, for a link, its url.                                        *)

MarkEntry(key, list, active, url, ids) ==
    [key |-> key, list |-> list, active |-> active, url |-> url, ids |-> ids]

FormatSpan(text, marks) == [text |-> text, marks |-> marks]

\* span.marks[markType] !== undefined
HasMarkValue(span, markType) ==
    \E n \in 1..Len(span.marks) : span.marks[n].key = markType

\* span.marks[markType]
MarkValueOf(span, markType) ==
    span.marks[CHOOSE n \in 1..Len(span.marks) : span.marks[n].key = markType]

\* the marks pushed for one mark type: one per value of a list, one for a
\* single value that is active
MarksOfValue(markType, v) ==
    IF v.list
    THEN [n \in 1..Len(v.ids) |-> SchemaMark(markType, [id |-> v.ids[n], url |-> "absent"])]
    ELSE IF v.active
    THEN <<SchemaMark(markType, [id |-> "absent", url |-> v.url])>>
    ELSE <<>>

\* the mark types are visited in the order of the span's own keys
MarkOrder_Keys(span) == [n \in 1..Len(span.marks) |-> span.marks[n].key]

\* for (const markType of ALL_MARKS)
MarkOrder(span) == ALL_MARKS

RECURSIVE MarksFrom(_, _)
\* the marks array, from the mark types still to visit
MarksFrom(span, kinds) ==
    IF kinds = <<>> THEN <<>>
    ELSE (IF HasMarkValue(span, Head(kinds))
          THEN MarksOfValue(Head(kinds), MarkValueOf(span, Head(kinds)))
          ELSE <<>>) \o MarksFrom(span, Tail(kinds))

\* the marks array built for a span
SpanMarks(span) == MarksFrom(span, MarkOrder(span))

\* schema.text takes any text, the empty one too
SchemaText_AllowEmpty(text, marks) == [ok |-> TRUE, text |-> text, marks |-> marks]

\* schema.text(text, marks): empty text nodes are not allowed
SchemaText(text, marks) == [ok |-> text # <<>>, text |-> text, marks |-> marks]

\* the tokens of a text node
NodeToks(node) ==
    [n \in 1..Len(node.text) |->
        CharTok(node.text[n], {node.marks[m] : m \in 1..Len(node.marks)})]

RECURSIVE NodesToks(_)
NodesToks(nodes) ==
    IF nodes = <<>> THEN <<>> ELSE NodeToks(Head(nodes)) \o NodesToks(Tail(nodes))

\* spans.map(span => schema.text(span.text, marks))
SpanNodes(ss) == [n \in 1..Len(ss) |-> SchemaText(ss[n].text, SpanMarks(ss[n]))]

\* the paragraph made of the nodes, unless making one of them threw
ParagraphOf(nodes) ==
    [err |-> \E n \in 1..Len(nodes) : ~nodes[n].ok,
     nodes |-> nodes,
     doc |-> <<OpenTok>> \o NodesToks(nodes) \o <<CloseTok>>]

\* prosemirrorDocFromCRDT({schema, spans}): whether it threw, the text nodes
\* it made and the document
prosemirrorDocFromCRDT(ss) ==
    IF Len(ss) = 1 /\ ss[1].text = <<>>
    THEN [err |-> FALSE, nodes |-> <<>>, doc |-> <<OpenTok, CloseTok>>]
    ELSE ParagraphOf(SpanNodes(ss))

(* ------------- specification of the creation of an editor ------------- *)

\* the mark maps of the spans: mark types absent, active and not, a link,
\* comment lists, and maps that differ only in the order of their keys
MarkMaps ==
    LET strong(b) == MarkEntry("strong", FALSE, b, "absent", <<>>)
        em(b) == MarkEntry("em", FALSE, b, "absent", <<>>)
        link(b) == MarkEntry("link", FALSE, b, "s1", <<>>)
        comment(ids) == MarkEntry("comment", TRUE, FALSE, "absent", ids)
    IN  {<<>>, <<strong(TRUE)>>, <<strong(FALSE)>>, <<link(TRUE)>>,
         <<comment(<<>>)>>, <<comment(<<"s1", "s2">>)>>,
         <<strong(TRUE), link(TRUE)>>, <<link(TRUE), strong(TRUE)>>,
         <<comment(<<"s1">>), em(TRUE)>>, <<em(TRUE), comment(<<"s1">>)>>,
         <<em(FALSE), link(FALSE)>>}

\* the spans getTextWithFormatting may hold
Spans == {FormatSpan(x, m) : x \in Texts(1) \cup {<<"a", "b">>}, m \in MarkMaps}

RECURSIVE SpansText(_)
\* the span texts, one after the other
SpansText(ss) == IF ss = <<>> THEN <<>> ELSE Head(ss).text \o SpansText(Tail(ss))

\* EditorState.create({doc: prosemirrorDocFromCRDT({schema, spans})}): a throw
\* leaves no editor
CreateAfter(r) ==
    [doc |-> IF r.err THEN <<>> ELSE r.doc,
     last |-> Run("create", <<>>, IF r.err THEN "threw" ELSE "ok", "ok",
                  <<>>, <<>>, <<>>, <<>>)]

CreateEditor ==
    /\ last.kind = "none"
    /\ \E r \in {CreateAfter(prosemirrorDocFromCRDT(spans))} :
          /\ doc' = r.doc
          /\ last' = r.last
          /\ tr' = NewTr(r.doc)
    /\ UNCHANGED <<crdt, buffer, subscribed, net, peerDoc, peerCrdt, peerLast, spans>>

\* the engine holds a text with its formatting; there is no editor yet
InitProj ==
    /\ spans \in UNION {[1..k -> Spans] : k \in 0..MaxLen}
    /\ crdt = SpansText(spans)
    /\ doc = <<>>
    /\ buffer = <<>>
    /\ tr = NewTr(doc)
    /\ last = NoRun
    /\ subscribed = FALSE
    /\ net = <<>>
    /\ peerDoc = doc
    /\ peerCrdt = crdt
    /\ peerLast = NoRun

NextProj == CreateEditor

SpecProj == InitProj /\ [][NextProj]_vars

(* ---------- specification of a session whose queue keeps ticking ------ *)

\* the one-step transactions of the ticking session: a character typed at
\* the end of the text, the last character deleted, a comment put on a range
LiveSteps(d) ==
    {st \in SessionSteps(d) :
        st.kind = "replace" => /\ st.to = ContentSize(d) - 1
                               /\ st.slice # SplitSlice}

\* a local command dispatches a one-step transaction while the publisher
\* holds fewer than MaxQueue batches
EditLive ==
    /\ Len(buffer) < MaxQueue
    /\ Len(net) < MaxQueue
    /\ \E step \in LiveSteps(doc) :
       \E r \in {DispatchResult(doc, crdt, buffer, TrStep(NewTr(doc), step))} :
              /\ doc' = r.doc
              /\ crdt' = r.crdt
              /\ buffer' = r.buffer
              /\ last' = r.last
              /\ tr' = NewTr(r.doc)
    /\ UNCHANGED <<subscribed, net, peerDoc, peerCrdt, peerLast, spans>>

\* the state createEditor leaves, with a subscriber that has handled nothing
\* yet: net holds every batch published so far, in order
InitLive ==
    /\ doc = PlainDoc(<<>>)
    /\ crdt = <<>>
    /\ buffer = <<>>
    /\ tr = NewTr(doc)
    /\ last = NoRun
    /\ subscribed = TRUE
    /\ net = <<>>
    /\ peerDoc = doc
    /\ peerCrdt = crdt
    /\ peerLast = NoRun
    /\ spans = <<>>

NextLive == EditLive \/ Tick

\* queue.start(): the flush timer keeps firing
SpecLive == InitLive /\ [][NextLive]_vars /\ WF_vars(Tick)

(* ------------------------------- C11 ---------------------------------- *)
RECURSIVE Published(_)
\* the Changes of the given batches, one batch after the other
Published(batches) ==
    IF batches = <<>> THEN <<>> ELSE Head(batches) \o Published(Tail(batches))

\* the most Changes a session of the model publishes
MaxChanges == MaxQueue * MaxQueue

\* C11: a dispatched transaction publishes nothing in its own run and only
\* appends its Change to the Changes published or waiting; a tick moves all
\* waiting Changes, in order, behind the published ones and drops none; and
\* with ticks recurring, the n-th Change enqueued is eventually published.
C11_NoLossNoSyncFlush ==
    /\ [][/\ last'.kind = "dispatch" =>
               /\ net' = net
               /\ last'.published = <<>>
               /\ Published(net') \o buffer' =
                     Published(net) \o buffer \o
                        (IF last'.outcome = "change"
                         THEN <<Change(actorId, last'.calls[1])>> ELSE <<>>)
          /\ last'.kind = "tick" =>
               /\ Published(net') \o buffer' = Published(net) \o buffer
               /\ buffer' = <<>>]_vars
    /\ \A n \in 1..MaxChanges :
          (Len(Published(net)) + Len(buffer) >= n) ~> (Len(Published(net)) >= n)

\* two batches were published, the first of two Changes, and nothing waits
C11_Witness ==
    /\ subscribed
    /\ last.kind = "tick"
    /\ Len(net) = 2
    /\ Len(net[1]) = 2
    /\ Len(Published(net)) >= 3
    /\ buffer = <<>>

(* ------ specification of local transactions and incoming batches ------ *)

peerId == "bob"

\* a patch of a kind applyPatchToTransaction has no case for
UnknownOp == [MakeListOp(<<>>, "comments") EXCEPT !.action = "makeMap"]

\* The operations of the Changes a peer sends: a typed character; the
\* deletion of one character, as applyTransaction compiles it; strong on the
\* first character; the content list made anew and filled, as initializeDocs
\* does; a list made elsewhere in the document; an operation of another kind.
\* An index may lie outside the receiver's text: the engine refuses it.
RemoteOps ==
    {<<InsertOp(i, <<"b">>)>> : i \in {0, MaxLen}}
    \cup {<<DeleteOp(0, 1), InsertOp(0, <<>>)>>}
    \cup {<<MarkOp("addMark", 0, 0, "strong", NoAttrs)>>}
    \cup {<<MakeListOp(<<>>, contentKey), InsertOp(0, v)>> : v \in {<<"b">>, <<"b", "b">>}}
    \cup {<<MakeListOp(<<>>, "comments")>>, <<MakeListOp(<<contentKey>>, contentKey)>>}
    \cup {<<UnknownOp>>}

RemoteChanges == {Change(peerId, ops) : ops \in RemoteOps}

\* the sizes of the batches the publisher hands the handler
BatchSizes == {0, 1, 2}

Batches == UNION {[1..k -> RemoteChanges] : k \in BatchSizes}

\* the one-step transactions between batches: a character typed at the end
\* of the text, the last character deleted, Enter at the end
MixSteps(d) ==
    {st \in SessionSteps(d) :
        /\ st.kind = "replace"
        /\ st.to = ContentSize(d) - 1
        /\ st.slice.content \in {<<>>, TextToks(<<"a">>), SplitSlice.content}}

\* a local command dispatches a one-step transaction; the queue holds at
\* most the Change of one transaction between two ticks
EditMix ==
    /\ buffer = <<>>
    /\ \E step \in MixSteps(doc) :
       \E r \in {DispatchResult(doc, crdt, buffer, TrStep(NewTr(doc), step))} :
              /\ doc' = r.doc
              /\ crdt' = r.crdt
              /\ buffer' = r.buffer
              /\ last' = r.last
              /\ tr' = NewTr(r.doc)
    /\ UNCHANGED <<subscribed, net, peerDoc, peerCrdt, peerLast, spans>>

\* the publisher calls the subscribe handler with a batch; a tick or a local
\* transaction lies between two batches
Incoming ==
    /\ tr.steps = <<>>
    /\ last.kind # "incoming"
    /\ \E incomingChanges \in Batches, g \in Granularities :
       \E r \in {IncomingResult(doc, crdt, buffer, incomingChanges, g)} :
              /\ Len(r.crdt) <= MaxLen
              /\ Len(ToksText(r.doc)) <= MaxLen
              /\ doc' = r.doc
              /\ crdt' = r.crdt
              /\ buffer' = r.buffer
              /\ last' = r.last
              /\ tr' = NewTr(r.doc)
    /\ UNCHANGED <<subscribed, net, peerDoc, peerCrdt, peerLast, spans>>

NextMix == EditMix \/ Tick \/ Incoming

SpecMix == Init /\ [][NextMix]_vars

(* ------------------------------- C12 ---------------------------------- *)
\* how many changes of the run were applied whole: each has its record, and
\* only the record of a change whose patches could not be applied has err
AppliedCount(trs) == Cardinality({i \in 1..Len(trs) : ~trs[i].err})

\* the operations of the first m changes of a batch, one engine call each
FirstOps(batch, m) == [i \in 1..m |-> batch[i].ops]

\* C12: when the handler fails on a change after having applied m >= 1
\* changes of the batch, the editor's document is the one those m changes
\* gave and the engine holds the text those m changes gave.
C12_EarlierChangesRemain ==
    [][(/\ last'.kind = "incoming"
        /\ last'.outcome = "threw"
        /\ AppliedCount(last'.trs) >= 1)
       => /\ doc' = last'.trs[AppliedCount(last'.trs)].after
          /\ crdt' = RunCalls(crdt, FirstOps(last'.batch, AppliedCount(last'.trs))).text]_vars

(* ------------------------------- C13 ---------------------------------- *)
\* st is the step the patch p asks the transaction for
PatchMakes(p, st) ==
    CASE p.action = "insert" ->
            st.kind = "replace" /\ st.from = p.index + 1 /\ st.to = p.index + 1
      [] p.action = "delete" ->
            /\ st.kind = "replace" /\ st.from = p.index + 1
            /\ st.to = p.index + 1 + p.count /\ st.slice.content = <<>>
      [] p.action = "makeList" ->
            st.kind = "replace" /\ st.from = 0 /\ st.slice.content = <<>>
      [] p.action \in {"addMark", "removeMark"} ->
            /\ st.kind = p.action /\ st.from = p.start + 1 /\ st.to = p.end + 2
            /\ st.mark.type = p.markType
      [] OTHER -> FALSE

\* a patch that may leave the transaction without a new step
PatchSilent(p) == p.action \in {"makeList", "addMark", "removeMark"}

RECURSIVE InPatchOrder(_, _)
\* the steps are those of the patches, in the order of the patches
InPatchOrder(patches, steps) ==
    IF patches = <<>> THEN steps = <<>>
    ELSE \/ /\ steps # <<>>
            /\ PatchMakes(Head(patches), Head(steps))
            /\ InPatchOrder(Tail(patches), Tail(steps))
         \/ /\ PatchSilent(Head(patches))
            /\ InPatchOrder(Tail(patches), steps)

RECURSIVE Replay(_, _)
\* d with the steps applied one after the other
Replay(d, steps) ==
    IF steps = <<>> THEN d ELSE Replay(StepApply(d, Head(steps)), Tail(steps))

\* C13: in a handler run every change has one transaction, built on the
\* document the change before it left; a transaction built whole holds the
\* steps of all its patches in patch order; only the last transaction of a
\* run can be one that failed on a patch, and then the run throws; and the
\* document the editor holds afterwards is the one from before the batch when
\* the run threw, else the one the last whole transaction gave: never the
\* document of a transaction that holds only the first patches of a change.
C13_NoPartialChange ==
    [][last'.kind = "incoming" =>
          /\ \A i \in 1..Len(last'.trs) :
                /\ last'.trs[i].before = IF i = 1 THEN doc ELSE last'.trs[i - 1].after
                /\ last'.trs[i].after = Replay(last'.trs[i].before, last'.trs[i].steps)
                /\ ~last'.trs[i].err =>
                      InPatchOrder(last'.trs[i].patches, last'.trs[i].steps)
                /\ last'.trs[i].err => i = Len(last'.trs) /\ last'.outcome = "threw"
          /\ last'.outcome = "ok" => /\ Len(last'.trs) = Len(last'.batch)
                                     /\ doc' = last'.trs[Len(last'.trs)].after
          /\ last'.outcome # "ok" => doc' = doc]_vars

\* the handler failed on the second patch of a change whose first patch had
\* changed the transaction's document; the editor holds the document from
\* before the change
C13_Witness ==
    /\ last.kind = "incoming"
    /\ last.outcome = "threw"
    /\ Len(last.trs) >= 1
    /\ last.trs[Len(last.trs)].err
    /\ Len(last.trs[Len(last.trs)].patches) = 2
    /\ Len(last.trs[Len(last.trs)].steps) = 1
    /\ last.trs[Len(last.trs)].after # last.trs[Len(last.trs)].before
    /\ doc = last.trs[1].before
    /\ doc # last.trs[Len(last.trs)].after

(* ------------------------------- C14 ---------------------------------- *)
\* the spans partition a text: none is empty, or the one span of the empty
\* document is
IsPartition(ss) ==
    \/ \A n \in 1..Len(ss) : ss[n].text # <<>>
    \/ Len(ss) = 1 /\ ss[1].text = <<>>

\* C14: from spans that partition the engine's text, the editor is created
\* with one paragraph whose text is the span texts one after the other; the
\* one empty span of the empty document gives the empty paragraph and no
\* text node; and whatever the spans, no text node made is empty.
C14_ProjectionText ==
    last.kind = "create" =>
        /\ IsPartition(spans) =>
              /\ last.outcome = "ok"
              /\ NumBlocks(doc) = 1
              /\ Head(doc) = OpenTok
              /\ doc[Len(doc)] = CloseTok
              /\ ToksText(doc) = SpansText(spans)
              /\ ToksText(doc) = crdt
              /\ Len(doc) = Len(crdt) + 2
        /\ (Len(spans) = 1 /\ spans[1].text = <<>>) =>
              /\ doc = <<OpenTok, CloseTok>>
              /\ prosemirrorDocFromCRDT(spans).nodes = <<>>
        /\ last.outcome = "ok" =>
              \A n \in 1..Len(prosemirrorDocFromCRDT(spans).nodes) :
                  prosemirrorDocFromCRDT(spans).nodes[n].text # <<>>

\* an editor was created from two spans of different marks
C14_Witness ==
    /\ last.kind = "create"
    /\ last.outcome = "ok"
    /\ Len(spans) = 2
    /\ spans[1].text = <<"a", "b">>
    /\ spans[1].marks # spans[2].marks
    /\ Len(doc) = Len(spans[1].text) + Len(spans[2].text) + 2

(* ------------------------------- C15 ---------------------------------- *)
\* the marks a span's map asks for
WantedMarks(span) ==
    {Mark(span.marks[n].key, [id |-> "absent", url |-> span.marks[n].url]) :
        n \in {k \in 1..Len(span.marks) : ~span.marks[k].list /\ span.marks[k].active}}
    \cup
    UNION {{Mark(span.marks[n].key, [id |-> span.marks[n].ids[j], url |-> "absent"]) :
                j \in 1..Len(span.marks[n].ids)} :
            n \in {k \in 1..Len(span.marks) : span.marks[k].list}}

RECURSIVE WantedCount(_, _)
\* how many marks the first n entries of a span's map ask for
WantedCount(span, n) ==
    IF n = 0 THEN 0
    ELSE WantedCount(span, n - 1) +
         (IF span.marks[n].list THEN Len(span.marks[n].ids)
          ELSE IF span.marks[n].active THEN 1 ELSE 0)

\* the place of a mark type in ALL_MARKS
KindRank(type) == CHOOSE n \in 1..Len(ALL_MARKS) : ALL_MARKS[n] = type

\* the two maps hold the same entries
SameMap(m1, m2) ==
    {m1[n] : n \in 1..Len(m1)} = {m2[n] : n \in 1..Len(m2)}

\* C15: the marks made for a span are one per value of each list and one per
\* single value that is active, none else; they come in the order of
\* ALL_MARKS, a list's values in list order; spans whose maps differ only in
\* key order get the same marks; and in the created document every
\* character of a span carries exactly these marks.
C15_ProjectionMarks ==
    last.kind = "create" =>
        /\ \A n \in 1..Len(spans) :
              /\ {SpanMarks(spans[n])[m] : m \in 1..Len(SpanMarks(spans[n]))}
                    = WantedMarks(spans[n])
              /\ Len(SpanMarks(spans[n])) = WantedCount(spans[n], Len(spans[n].marks))
              /\ \A m1, m2 \in 1..Len(SpanMarks(spans[n])) :
                    m1 < m2 => KindRank(SpanMarks(spans[n])[m1].type)
                                  <= KindRank(SpanMarks(spans[n])[m2].type)
              /\ \A k \in 1..Len(spans) :
                    SameMap(spans[n].marks, spans[k].marks)
                        => SpanMarks(spans[n]) = SpanMarks(spans[k])
        /\ last.outcome = "ok" =>
              \A n \in 1..Len(spans) : \A j \in 1..Len(spans[n].text) :
                  doc[1 + Len(SpansText(SubSeq(spans, 1, n - 1))) + j]
                      = CharTok(spans[n].text[j], WantedMarks(spans[n]))

\* an editor was created from two spans whose maps hold the same two active
\* marks under different key orders
C15_Witness ==
    /\ last.kind = "create"
    /\ last.outcome = "ok"
    /\ Len(spans) = 2
    /\ spans[1].marks # spans[2].marks
    /\ SameMap(spans[1].marks, spans[2].marks)
    /\ Len(SpanMarks(spans[1])) = 2
    /\ doc[2].marks = doc[Len(doc) - 1].marks
    /\ Cardinality(doc[2].marks) = 2

(* ------------------------------- C16 ---------------------------------- *)
\* the operations a dispatched transaction handed the engine
OpsSubmitted == IF last.calls = <<>> THEN <<>> ELSE last.calls[1]

\* C16: a transaction whose only step is a replace step of plain text hands
\* the engine an insert operation exactly when the step's text is not empty;
\* a step that only deletes hands it delete(from - 1, to - from) and nothing
\* else.
C16_InsertIffText ==
    (/\ last.kind = "dispatch"
     /\ Len(last.steps) = 1
     /\ last.steps[1].kind = "replace"
     /\ IsFlatText(last.steps[1].slice))
    => /\ (\E n \in 1..Len(OpsSubmitted) : OpsSubmitted[n].action = "insert")
             <=> ToksText(last.steps[1].slice.content) # <<>>
       /\ (/\ last.steps[1].from # last.steps[1].to
           /\ ToksText(last.steps[1].slice.content) = <<>>)
          => OpsSubmitted = <<DeleteOp(last.steps[1].from - 1,
                                       last.steps[1].to - last.steps[1].from)>>

(* ------------------------------- C17 ---------------------------------- *)
\* the per-change records of the latest handler run on the editor
Recs == {last.trs[k] : k \in 1..Len(last.trs)}

\* the makeList patch re-initializes the root content list
IsRootList(p) == p.path = <<>> /\ p.key = contentKey

RECURSIVE InsertedText(_, _)
\* the text that insert patches build, from the text so far
InsertedText(text, patches) ==
    IF patches = <<>> THEN text
    ELSE InsertedText(InsertedAt(text, Head(patches).index, Head(patches).values),
                      Tail(patches))

\* C17: in a change whose first patch is makeList and whose other patches
\* are inserts, the makeList patch adds a step exactly when it names the root
\* content list; the step then replaces the whole content [0, size) with
\* nothing and the tree text after the change is the text the inserts carry;
\* any other makeList patch leaves the document as it was.
C17_MakeListReinit ==
    last.kind = "incoming" =>
        \A rec \in Recs :
            (/\ ~rec.err
             /\ rec.patches[1].action = "makeList"
             /\ \A n \in 2..Len(rec.patches) : rec.patches[n].action = "insert")
            => IF IsRootList(rec.patches[1])
               THEN /\ rec.steps # <<>>
                    /\ rec.steps[1] = ReplaceStep(0, ContentSize(rec.before), SliceEmpty)
                    /\ ToksText(rec.after) = InsertedText(<<>>, Tail(rec.patches))
               ELSE /\ Len(rec.steps) = Len(rec.patches) - 1
                    /\ Len(rec.patches) = 1 => rec.after = rec.before

(* ------------------------------- C18 ---------------------------------- *)
PatchKinds == {"insert", "delete", "makeList", "addMark", "removeMark"}

\* the change's patches include one of no known kind
HasUnknownPatch(rec) ==
    \E n \in 1..Len(rec.patches) : rec.patches[n].action \notin PatchKinds

\* C18: a patch whose action is none of insert, delete, makeList, addMark,
\* removeMark is fatal: the transaction of its change is flagged as failed, the
\* handler run ends there by a throw, no later change of the batch is applied
\* and the view keeps the document it had; the patch is never skipped.
C18_UnknownPatchFatal ==
    [][(last'.kind = "incoming" /\ last' # last) =>
         \A k \in 1..Len(last'.trs) :
            HasUnknownPatch(last'.trs[k]) =>
                /\ last'.trs[k].err
                /\ last'.outcome = "threw"
                /\ k = Len(last'.trs)
                /\ doc' = doc]_vars

\* an incoming batch with a patch of unknown kind ended the handler by a throw
C18_Witness ==
    /\ last.kind = "incoming"
    /\ last.outcome = "threw"
    /\ \E rec \in Recs : HasUnknownPatch(rec) /\ rec.err

(* ------------------------------- C19 ---------------------------------- *)
\* the latest run was a local dispatch or an incoming batch, and it returned
Completed ==
    \/ last.kind = "dispatch" /\ last.outcome \in {"change", "null"}
    \/ last.kind = "incoming" /\ last.outcome \in {"ok", "empty"}

\* C19: after every completed local dispatchTransaction and every completed
\* incoming-batch handler, in any interleaving of the two on one editor, the
\* text of the tree document is the engine's text of the root content list and
\* the document has exactly one block container.
C19_DocConsistency ==
    Completed => ToksText(doc) = crdt /\ NumBlocks(doc) = 1

(* ------------------------------- C20 ---------------------------------- *)
\* C20: handling an incoming batch appends nothing to the local change queue,
\* makes no doc.change call and publishes nothing, whether the handler returns
\* or throws; an empty batch also leaves the engine's text and the editor's
\* document as they were.
C20_NoEcho ==
    [][(last'.kind = "incoming" /\ last' # last) =>
         /\ buffer' = buffer
         /\ net' = net
         /\ last'.calls = <<>>
         /\ last'.published = <<>>
         /\ last'.batch = <<>> => (doc' = doc /\ crdt' = crdt /\ last'.trs = <<>>)]_vars

\* a batch of remote changes was applied to the editor while a local change
\* was waiting in the queue
C20_Witness ==
    /\ last.kind = "incoming"
    /\ last.outcome = "ok"
    /\ last.batch # <<>>
    /\ \E rec \in Recs : rec.after # rec.before
    /\ buffer # <<>>

====
